---- MODULE Spec2Model ----
(***************************************************************************)
(* The cart store of the storefront (CartContext: cartReducer, loadInitial *)
(* and CartProvider in src/src/App.jsx) together with the localStorage key *)
(* "cart:v1" it persists to.                                               *)
(*                                                                         *)
(* Prices are JavaScript numbers in the source; here a price is an integer *)
(* number of cents, so that price * qty is exact.                          *)
(***************************************************************************)
EXTENDS Integers, Sequences, FiniteSets, TLC

(***************************************************************************)
(* Bounds of the model.                                                    *)
(***************************************************************************)
\* largest absolute line quantity the model lets a cart reach
MaxQty == 2
\* largest number of localStorage.setItem calls that throw
MaxWriteFailures == 1
\* largest number of checkout form submissions in one visit of the view
MaxCalls == 2
\* largest number of fields in which a validated form differs from a base form
MaxEdited == 1
\* largest number of catalog requests one visit of the product view issues
MaxRequests == 3
\* largest value kept with useLocalStorage
MaxValue == 4
\* largest number of setValue calls
MaxSetCalls == 3
\* largest number of setValue calls in which something throws
MaxHookFailures == 1
\* the time at which the clock of the timers stops
MaxTime == 4
\* largest number of calls of a debounced function
MaxDebounceCalls == 2
\* largest number of changes of a debounced value
MaxInputChanges == 2

\* quantity arguments handed to addItem and updateQty
QtyArgs == {-1, 0, 1, 2}

(***************************************************************************)
(* Products as the catalog API returns them: id, title, price, image and   *)
(* further fields the cart does not keep.  Product 1 occurs in two         *)
(* versions, as the catalog entry may be edited between two adds.          *)
(***************************************************************************)
Products ==
  { [id |-> 1, title |-> "A",  price |-> 999,  image |-> "a.png",
     description |-> "first",  category |-> "x"],
    [id |-> 1, title |-> "A2", price |-> 1099, image |-> "a2.png",
     description |-> "edited", category |-> "x"],
    [id |-> 2, title |-> "B",  price |-> 2500, image |-> "b.png",
     description |-> "second", category |-> "y"] }

ProductIds == { p.id : p \in Products }

\* ids handed to removeItem and updateQty: the catalog's and one that no product has
IdArgs == ProductIds \cup {9}

VARIABLES
  items,          \* CartProvider's reducer state: the list of line items
  cartCount,      \* useMemo value of the last render
  cartTotal,      \* useMemo value of the last render
  storage,        \* what localStorage holds under "cart:v1"
  persist,        \* the persist effect of the last render: "pending", "written", "failed"
  writeFailures,  \* number of setItem calls that have thrown
  lastAction,     \* the action object last dispatched to the reducer
  prevItems,      \* the reducer state that action was applied to
  provider,       \* which of the two CartProvider definitions of App.jsx is mounted
  app             \* "running", or how the React tree was torn down by an uncaught error

cartVars == <<items, cartCount, cartTotal, storage, persist, writeFailures,
              lastAction, prevItems, provider, app>>

VARIABLES
  mounted,        \* whether the Checkout view is on screen
  form,           \* Checkout's form state: field name -> text
  errors,         \* Checkout's errors state: field name -> message
  processing,     \* Checkout's processing state
  success,        \* Checkout's success state: the order id, or NoOrder for null
  awaiting,       \* number of placeOrder calls suspended in the simulated delay
  calls,          \* number of placeOrder calls so far
  orders          \* number of order ids generated so far

checkoutVars == <<mounted, form, errors, processing, success, awaiting, calls, orders>>

VARIABLES
  detailsOpen,    \* whether the ProductDetails view is on screen
  routeId,        \* the id route parameter of its last render
  effectId,       \* the id its fetch effect last ran for, 0 before the first run
  detailsProduct, \* ProductDetails' product state
  detailsLoading, \* ProductDetails' loading state
  detailsError,   \* ProductDetails' error state
  requests        \* the axios requests issued, oldest first: [id, state]

fetchVars ==
  <<detailsOpen, routeId, effectId, detailsProduct, detailsLoading, detailsError,
    requests>>

VARIABLES
  storedValue,    \* useLocalStorage: the state value of the last render, which
                  \* the setValue of that render has captured
  stateValue,     \* the value setStoredValue has put into React's state
  hookStorage,    \* the localStorage item under the hook's key
  burst,          \* the setValue calls made since the last render
  raised,         \* whether a setValue call has thrown to its caller
  setCalls,       \* number of setValue calls so far
  hookFailures    \* number of setValue calls in which something threw

hookVars ==
  <<storedValue, stateValue, hookStorage, burst, raised, setCalls, hookFailures>>

VARIABLES
  now,            \* the clock the browser's timers run on, in units of time
  timers,         \* the setTimeout timers that are pending
  nextTimerId,    \* the id the next setTimeout returns
  cbMounted,      \* useDebounceCallback: whether its component is mounted
  debounceTimer,  \* the debounceTimer state of the last render, 0 for null
  latestTimer,    \* the value setDebounceTimer has put into React's state
  renderDue,      \* whether a state update waits for its render
  depsUse,        \* how the component passes deps
  hookCopy,       \* which of the two copies of the hook is in use
  callLog,        \* the calls of the debounced function: [args, at]
  invoked,        \* the invocations of callback: [args, at, call, latest]
  dvMounted,      \* useDebounce: whether its component is mounted
  inputValue,     \* the value argument of the last render
  inputSince,     \* the time at which the value argument last changed
  debouncedValue, \* the debouncedValue state
  effectTimer     \* the timer of the last run of the effect, 0 for none

clockVars == <<now, timers, nextTimerId>>

callbackVars ==
  <<cbMounted, debounceTimer, latestTimer, renderDue, depsUse, hookCopy, callLog,
    invoked>>

valueVars == <<dvMounted, inputValue, inputSince, debouncedValue, effectTimer>>

debounceVars == <<clockVars, callbackVars, valueVars>>

\* the views that take no part in a store or checkout step
otherViews == <<fetchVars, hookVars, debounceVars>>

vars == <<cartVars, checkoutVars, otherViews>>

(***************************************************************************)
(* JSON.stringify / JSON.parse on the cart array.  A JSON text is a        *)
(* sequence of objects, an object a sequence of <<key, literal>> members,  *)
(* a literal a sequence of characters: a number literal is its decimal     *)
(* digits, a string literal starts with a quote character.                 *)
(***************************************************************************)
DigitChars == <<"0", "1", "2", "3", "4", "5", "6", "7", "8", "9">>

RECURSIVE NatToChars(_)
NatToChars(n) ==
  IF n < 10 THEN <<DigitChars[n + 1]>>
  ELSE NatToChars(n \div 10) \o <<DigitChars[(n % 10) + 1]>>

NumberToJSON(n) ==
  IF n < 0 THEN <<"-">> \o NatToChars(0 - n) ELSE NatToChars(n)

StringToJSON(s) == <<"\"", s>>

CharToDigit(c) == CHOOSE d \in 0..9 : DigitChars[d + 1] = c

RECURSIVE CharsToNat(_)
CharsToNat(cs) ==
  IF Len(cs) = 0 THEN 0
  ELSE 10 * CharsToNat(SubSeq(cs, 1, Len(cs) - 1)) + CharToDigit(cs[Len(cs)])

LiteralToValue(lit) ==
  IF lit[1] = "\"" THEN lit[2]
  ELSE IF lit[1] = "-" THEN 0 - CharsToNat(Tail(lit))
  ELSE CharsToNat(lit)

\* the members of one line item, in the key order the reducer builds it with
ObjectToJSON(i) ==
  << <<"id", NumberToJSON(i.id)>>,
     <<"title", StringToJSON(i.title)>>,
     <<"price", NumberToJSON(i.price)>>,
     <<"image", StringToJSON(i.image)>>,
     <<"qty", NumberToJSON(i.qty)>> >>

JSONstringify(its) == [n \in 1..Len(its) |-> ObjectToJSON(its[n])]

JSONparseObject(members) ==
  [k \in { members[n][1] : n \in 1..Len(members) } |->
     LET last == CHOOSE n \in 1..Len(members) :
                   /\ members[n][1] = k
                   /\ \A m \in (n + 1)..Len(members) : members[m][1] # k
     IN  LiteralToValue(members[last][2])]

JSONparse(text) == [n \in 1..Len(text) |-> JSONparseObject(text[n])]

(***************************************************************************)
(* localStorage under the key "cart:v1": absent, or a text that is either  *)
(* well-formed JSON or not; well-formed JSON is an array (text holds its   *)
(* elements) or some other JSON value such as {} or 5.                     *)
(***************************************************************************)
NoSnapshot ==
  [present |-> FALSE, wellFormed |-> FALSE, isArray |-> FALSE, text |-> <<>>]

MalformedSnapshot ==
  [present |-> TRUE, wellFormed |-> FALSE, isArray |-> FALSE, text |-> <<>>]

\* a text such as "{}" that JSON.parse accepts and that is not an array
NonArraySnapshot ==
  [present |-> TRUE, wellFormed |-> TRUE, isArray |-> FALSE, text |-> <<>>]

SnapshotOf(its) ==
  [present |-> TRUE, wellFormed |-> TRUE, isArray |-> TRUE, text |-> JSONstringify(its)]

\* the cart of the spec's round-trip example, left by an earlier session
EarlierCart == << [id |-> 1, title |-> "A", price |-> 999, image |-> "a.png", qty |-> 2] >>

InitialStorage ==
  {NoSnapshot, MalformedSnapshot, NonArraySnapshot, SnapshotOf(EarlierCart)}

\* loadInitial with the branches of the conditional swapped
loadInitialSwapped(st) ==
  IF ~st.present THEN <<>>
  ELSE IF ~st.wellFormed THEN <<>>
  ELSE IF st.text # <<>> THEN <<>>
  ELSE JSONparse(st.text)

\* raw ? JSON.parse(raw) : [], and [] when getItem or JSON.parse throws
loadInitial(st) ==
  IF ~st.present THEN <<>>
  ELSE IF ~st.wellFormed THEN <<>>
  ELSE JSONparse(st.text)

\* whether the value loadInitial returns is an array: [] on the absent and on
\* the catch path, otherwise whatever JSON.parse produced
loadsArray(st) ==
  IF ~st.present THEN TRUE
  ELSE IF ~st.wellFormed THEN TRUE
  ELSE st.isArray

(***************************************************************************)
(* cartReducer                                                             *)
(***************************************************************************)
\* findIndex comparing the line's id with the product object instead of its id
findIndexNoMatch(state, id) == -1

\* Array.prototype.findIndex on the id: 0-based index of the first match, -1 if none
findIndex(state, id) ==
  IF \E n \in 1..Len(state) : state[n].id = id
  THEN (CHOOSE n \in 1..Len(state) :
          /\ state[n].id = id
          /\ \A m \in 1..(n - 1) : state[m].id # id) - 1
  ELSE -1

\* filter with the test inverted: (i) => i.id === id
RECURSIVE filterOnlyId(_, _)
filterOnlyId(state, id) ==
  IF state = <<>> THEN <<>>
  ELSE IF Head(state).id = id
       THEN <<Head(state)>> \o filterOnlyId(Tail(state), id)
       ELSE filterOnlyId(Tail(state), id)

\* Array.prototype.filter((i) => i.id !== id)
RECURSIVE filterOutId(_, _)
filterOutId(state, id) ==
  IF state = <<>> THEN <<>>
  ELSE IF Head(state).id # id
       THEN <<Head(state)>> \o filterOutId(Tail(state), id)
       ELSE filterOutId(Tail(state), id)

\* ADD overwriting the quantity: { ...next[idx], qty }
overwriteAt(state, idx, qty) ==
  [state EXCEPT ![idx + 1] = [@ EXCEPT !.qty = qty]]

\* ADD moving the incremented line to the end of the cart
incrementToEnd(state, idx, qty) ==
  Append(SubSeq(state, 1, idx) \o SubSeq(state, idx + 2, Len(state)),
         [state[idx + 1] EXCEPT !.qty = @ + qty])

\* ADD, id already in the cart: next[idx] = { ...next[idx], qty: next[idx].qty + qty }
incrementAt(state, idx, qty) ==
  [state EXCEPT ![idx + 1] = [@ EXCEPT !.qty = @ + qty]]

\* ADD storing the whole product: [...state, { ...product, qty }]
appendProduct(state, product, qty) ==
  Append(state, [id |-> product.id, title |-> product.title,
                 price |-> product.price, image |-> product.image,
                 description |-> product.description,
                 category |-> product.category, qty |-> qty])

\* ADD, new id: [...state, { ...minimal, qty }]
appendMinimal(state, product, qty) ==
  LET minimal == [id |-> product.id, title |-> product.title,
                  price |-> product.price, image |-> product.image]
  IN  Append(state, [id |-> minimal.id, title |-> minimal.title,
                     price |-> minimal.price, image |-> minimal.image,
                     qty |-> qty])

\* UPDATE_QTY removing only below zero: if (qty < 0)
setQtyKeepZero(state, id, qty) ==
  IF qty < 0 THEN filterOutId(state, id)
  ELSE [n \in 1..Len(state) |->
          IF state[n].id = id THEN [state[n] EXCEPT !.qty = qty]
          ELSE state[n]]

\* UPDATE_QTY setting the quantity of every line: state.map((i) => ({ ...i, qty }))
setQtyEveryLine(state, id, qty) ==
  IF qty <= 0 THEN filterOutId(state, id)
  ELSE [n \in 1..Len(state) |-> [state[n] EXCEPT !.qty = qty]]

\* UPDATE_QTY
setQty(state, id, qty) ==
  IF qty <= 0 THEN filterOutId(state, id)
  ELSE [n \in 1..Len(state) |->
          IF state[n].id = id THEN [state[n] EXCEPT !.qty = qty]
          ELSE state[n]]

\* CLEAR falling through to the default case
keepCart(state) == state

\* CLEAR
emptyCart(state) == <<>>

cartReducer(state, action) ==
  CASE action.type = "ADD" ->
         LET product == action.payload.product
             qty     == action.payload.qty
             idx     == findIndex(state, product.id)
         IN  IF idx >= 0 THEN incrementAt(state, idx, qty)
             ELSE appendMinimal(state, product, qty)
    [] action.type = "REMOVE" -> filterOutId(state, action.payload.id)
    [] action.type = "UPDATE_QTY" ->
         setQty(state, action.payload.id, action.payload.qty)
    [] action.type = "CLEAR" -> emptyCart(state)
    [] OTHER -> state

(***************************************************************************)
(* Derived values of a render: items.reduce(..., 0)                        *)
(***************************************************************************)
RECURSIVE reduceCount(_, _)
reduceCount(its, sum) ==
  IF its = <<>> THEN sum ELSE reduceCount(Tail(its), sum + Head(its).qty)

RECURSIVE reduceTotal(_, _)
reduceTotal(its, sum) ==
  IF its = <<>> THEN sum
  ELSE reduceTotal(Tail(its), sum + Head(its).qty * Head(its).price)

cartCountOf(its) == reduceCount(its, 0)

cartTotalOf(its) == reduceTotal(its, 0)

\* a render whose total memo has an empty dependency list and keeps its first value
RenderStaleTotal(its) ==
  /\ items' = its
  /\ cartCount' = cartCountOf(its)
  /\ cartTotal' = cartTotal

\* a render of CartProvider with reducer state its: both memos recompute
Render(its) ==
  /\ items' = its
  /\ cartCount' = cartCountOf(its)
  /\ cartTotal' = cartTotalOf(its)

\* the model follows a cart while its quantities stay between the smallest
\* quantity argument and MaxQty
LowestQty == CHOOSE q \in QtyArgs : \A r \in QtyArgs : q <= r

QtyInBounds(its) ==
  \A n \in 1..Len(its) : its[n].qty \in LowestQty..MaxQty

(***************************************************************************)
(* Checkout: the form and validate().  A text is a sequence of characters. *)
(***************************************************************************)
Fields ==
  {"firstName", "lastName", "email", "phone", "address1", "address2", "city",
   "state", "zip", "country", "cardName", "cardNumber", "exp", "cvc"}

\* const req = [...]
RequiredFields ==
  {"firstName", "lastName", "email", "address1", "city", "state", "zip",
   "country", "cardName", "cardNumber", "exp", "cvc"}

UnitedStates == <<"U", "n", "i", "t", "e", "d", " ", "S", "t", "a", "t", "e", "s">>

\* useState({ firstName: "", ..., country: "United States", ... })
InitialForm == [k \in Fields |-> IF k = "country" THEN UnitedStates ELSE <<>>]

\* \s and \d of the regular expressions, on the characters the model uses
IsSpace(c) == c \in {" ", "\t", "\n"}

IsDigit(c) == c \in {"0", "1", "2", "3", "4", "5", "6", "7", "8", "9"}

\* !String(v).trim(): nothing is left once the whitespace at both ends is removed
TrimIsEmpty(t) == \A n \in 1..Len(t) : IsSpace(t[n])

\* /^\S+@\S+\.\S+$/.test(t)
MatchesEmail(t) ==
  /\ \A n \in 1..Len(t) : ~IsSpace(t[n])
  /\ \E i, j \in 1..Len(t) :
       /\ 1 < i
       /\ t[i] = "@"
       /\ i + 1 < j
       /\ t[j] = "."
       /\ j < Len(t)

\* (s || "").replace(/\D/g, "")
RECURSIVE digitsOnly(_)
digitsOnly(t) ==
  IF t = <<>> THEN <<>>
  ELSE IF IsDigit(Head(t)) THEN <<Head(t)>> \o digitsOnly(Tail(t))
  ELSE digitsOnly(Tail(t))

\* /^(0?[1-9]|1[0-2])\/\d{2}$/.test(t)
MatchesExpiry(t) ==
  LET month(m) == \/ Len(m) = 1 /\ IsDigit(m[1]) /\ m[1] # "0"
                  \/ Len(m) = 2 /\ m[1] = "0" /\ IsDigit(m[2]) /\ m[2] # "0"
                  \/ Len(m) = 2 /\ m[1] = "1" /\ m[2] \in {"0", "1", "2"}
  IN  /\ Len(t) >= 4
      /\ t[Len(t) - 2] = "/"
      /\ IsDigit(t[Len(t) - 1])
      /\ IsDigit(t[Len(t)])
      /\ month(SubSeq(t, 1, Len(t) - 3))

MinCardDigits == 12
MaxCardDigits == 19
MinCvcDigits == 3
MaxCvcDigits == 4

\* the messages validate() assigns, in the order it assigns them: a later
\* assignment to the same key replaces an earlier one
requiredError(f, k) == k \in RequiredFields /\ TrimIsEmpty(f[k])

emailError(f) == f.email # <<>> /\ ~MatchesEmail(f.email)

cardError(f) ==
  LET card == digitsOnly(f.cardNumber)
  IN  card # <<>> /\ (Len(card) < MinCardDigits \/ Len(card) > MaxCardDigits)

expError(f) == f.exp # <<>> /\ ~MatchesExpiry(f.exp)

cvcError(f) ==
  LET cvc == digitsOnly(f.cvc)
  IN  cvc # <<>> /\ (Len(cvc) < MinCvcDigits \/ Len(cvc) > MaxCvcDigits)

laterError(f, k) ==
  \/ k = "email" /\ emailError(f)
  \/ k = "cardNumber" /\ cardError(f)
  \/ k = "exp" /\ expError(f)
  \/ k = "cvc" /\ cvcError(f)

validate(f) ==
  [k \in { x \in Fields : requiredError(f, x) \/ laterError(f, x) } |->
     IF k = "email" /\ emailError(f) THEN "Invalid email"
     ELSE IF k = "cardNumber" /\ cardError(f) THEN "Card number looks wrong"
     ELSE IF k = "exp" /\ expError(f) THEN "Use MM/YY"
     ELSE IF k = "cvc" /\ cvcError(f) THEN "3-4 digits"
     ELSE "Required"]

\* Object.keys(v).length
HasErrors(v) == DOMAIN v # {}

NoErrors == [k \in {} |-> "Required"]

\* useState(null) of success
NoOrder == "null"

\* if (success)
Truthy(orderId) == orderId # NoOrder /\ orderId # ""

\* `FS-${Math.random().toString(36).slice(2, 10).toUpperCase()}`: the random
\* part is empty when Math.random() returns 0
OrderIds == {"FS-", "FS-7K2M9QXA"}

\* useState(null) of product and of error
NullProduct ==
  [id |-> 0, title |-> "", price |-> 0, image |-> "", description |-> "", category |-> ""]

NoError == "null"

FetchFailed == "Couldn't load product details. Please try again."

\* the ProductDetails view while it is not mounted
DetailsAbsent ==
  /\ detailsOpen = FALSE
  /\ routeId = 0
  /\ effectId = 0
  /\ detailsProduct = NullProduct
  /\ detailsLoading = TRUE
  /\ detailsError = NoError
  /\ requests = <<>>

\* a localStorage item: getItem gives null for a key that is not there
NoItem == [text |-> <<>>, present |-> FALSE]

Item(text) == [text |-> text, present |-> TRUE]

\* the initialValue argument of useLocalStorage
InitialValue == 0

\* useLocalStorage in a component that is not mounted
HookAbsent ==
  /\ storedValue = InitialValue
  /\ stateValue = InitialValue
  /\ hookStorage = NoItem
  /\ burst = <<>>
  /\ raised = FALSE
  /\ setCalls = 0
  /\ hookFailures = 0

\* the clock before any timer was set
ClockAtStart ==
  /\ now = 0
  /\ timers = {}
  /\ nextTimerId = 1

\* useDebounceCallback in a component that is not mounted
CallbackAbsent ==
  /\ cbMounted = FALSE
  /\ debounceTimer = 0
  /\ latestTimer = 0
  /\ renderDue = FALSE
  /\ depsUse = "stable"
  /\ hookCopy = "part_007"
  /\ callLog = <<>>
  /\ invoked = <<>>

\* useDebounce in a component that is not mounted
ValueAbsent ==
  /\ dvMounted = FALSE
  /\ inputValue = 0
  /\ inputSince = 0
  /\ debouncedValue = 0
  /\ effectTimer = 0

DebounceAbsent == ClockAtStart /\ CallbackAbsent /\ ValueAbsent

OtherViewsAbsent == DetailsAbsent /\ HookAbsent /\ DebounceAbsent

\* the Checkout view before it is mounted and after it is left
CheckoutAbsent ==
  /\ mounted = FALSE
  /\ form = InitialForm
  /\ errors = NoErrors
  /\ processing = FALSE
  /\ success = NoOrder
  /\ awaiting = 0
  /\ calls = 0
  /\ orders = 0

(***************************************************************************)
(* The store                                                               *)
(***************************************************************************)
InitAction == [type |-> "INIT"]

\* the two definitions of CartProvider in App.jsx: the first wraps setItem in
\* try/catch, the second calls it bare
Providers == {"guarded", "unguarded"}

\* the first render: items.reduce throws when the loaded value is no array,
\* and with no error boundary React unmounts the tree
FirstRender(st) ==
  IF loadsArray(st)
  THEN /\ Render(loadInitial(st))
       /\ app' = "running"
  ELSE /\ Render(<<>>)
       /\ app' = "renderCrashed"

\* first render of CartProvider: useReducer(cartReducer, undefined, loadInitial)
Init ==
  /\ storage \in InitialStorage
  /\ provider \in Providers
  /\ items = loadInitial(storage)
  /\ cartCount = cartCountOf(items)
  /\ cartTotal = cartTotalOf(items)
  /\ app = IF loadsArray(storage) THEN "running" ELSE "renderCrashed"
  /\ persist = "pending"
  /\ writeFailures = 0
  /\ lastAction = InitAction
  /\ prevItems = <<>>
  /\ CheckoutAbsent
  /\ OtherViewsAbsent

\* dispatch(action) and the render it causes; the persist effect of the
\* previous render has run by then
DispatchCart(action) ==
  /\ app = "running"
  /\ persist # "pending"
  /\ QtyInBounds(cartReducer(items, action))
  /\ Render(cartReducer(items, action))
  /\ persist' = "pending"
  /\ lastAction' = action
  /\ prevItems' = items
  /\ UNCHANGED <<storage, writeFailures, provider, app>>
  /\ UNCHANGED otherViews

Dispatch(action) == DispatchCart(action) /\ UNCHANGED checkoutVars

addItem(product, qty) ==
  Dispatch([type |-> "ADD", payload |-> [qty |-> qty, product |-> product]])

removeItem(id) == Dispatch([type |-> "REMOVE", payload |-> [id |-> id]])

updateQty(id, qty) ==
  Dispatch([type |-> "UPDATE_QTY", payload |-> [id |-> id, qty |-> qty]])

clearCart == Dispatch([type |-> "CLEAR"])

\* addItem(product) with the qty parameter left to its default
DefaultQty == 1

addItemDefault(product) == addItem(product, DefaultQty)

\* an effect with an empty dependency list: it writes after the first render only
PersistEffectOnMountOnly ==
  /\ app = "running"
  /\ persist = "pending"
  /\ IF lastAction = InitAction
     THEN storage' = SnapshotOf(items)
     ELSE UNCHANGED storage
  /\ persist' = "written"
  /\ UNCHANGED <<items, cartCount, cartTotal, lastAction, prevItems,
                 writeFailures, provider, app>>
  /\ UNCHANGED <<checkoutVars, otherViews>>

\* useEffect(() => { try { localStorage.setItem(...) } catch {} }, [items])
\* and, in the second CartProvider, the same effect without try/catch
PersistEffect ==
  /\ app = "running"
  /\ persist = "pending"
  /\ \E throws \in BOOLEAN :
       IF throws
       THEN /\ writeFailures < MaxWriteFailures
            /\ writeFailures' = writeFailures + 1
            /\ persist' = "failed"
            /\ app' = IF provider = "guarded" THEN "running" ELSE "effectCrashed"
            /\ UNCHANGED storage
       ELSE /\ storage' = SnapshotOf(items)
            /\ persist' = "written"
            /\ UNCHANGED <<writeFailures, app>>
  /\ UNCHANGED <<items, cartCount, cartTotal, lastAction, prevItems, provider>>
  /\ UNCHANGED <<checkoutVars, otherViews>>

\* the page is loaded again: a fresh CartProvider over the same storage
Reload ==
  /\ FirstRender(storage)
  /\ persist' = "pending"
  /\ lastAction' = InitAction
  /\ prevItems' = <<>>
  /\ UNCHANGED <<storage, writeFailures, provider>>
  /\ UNCHANGED <<checkoutVars, otherViews>>

Next ==
  \/ \E p \in Products, q \in QtyArgs : addItem(p, q)
  \/ \E p \in Products : addItemDefault(p)
  \/ \E id \in IdArgs : removeItem(id)
  \/ \E id \in IdArgs, q \in QtyArgs : updateQty(id, q)
  \/ clearCart
  \/ PersistEffect
  \/ Reload

Spec == Init /\ [][Next]_vars

\* React runs every passive effect it has scheduled
FairSpec == Spec /\ WF_vars(PersistEffect)

TypeOK ==
  /\ persist \in {"pending", "written", "failed"}
  /\ writeFailures \in 0..MaxWriteFailures
  /\ app \in {"running", "renderCrashed", "effectCrashed"}
  /\ provider \in Providers
  /\ QtyInBounds(items)

(***************************************************************************)
(* The Checkout view over the store                                        *)
(***************************************************************************)
Digits(n) == [i \in 1..n |-> "1"]

\* a form that passes validate()
ValidForm ==
  [k \in Fields |->
     CASE k = "firstName"  -> <<"J">>
       [] k = "lastName"   -> <<"D">>
       [] k = "email"      -> <<"a", "@", "b", ".", "c">>
       [] k = "phone"      -> <<>>
       [] k = "address1"   -> <<"1", " ", "M", "a", "i", "n">>
       [] k = "address2"   -> <<>>
       [] k = "city"       -> <<"X">>
       [] k = "state"      -> <<"S">>
       [] k = "zip"        -> <<"9">>
       [] k = "country"    -> UnitedStates
       [] k = "cardName"   -> <<"J", " ", "D">>
       [] k = "cardNumber" -> <<"4">> \o Digits(15)
       [] k = "exp"        -> <<"0", "9", "/", "2", "7">>
       [] k = "cvc"        -> <<"1", "2", "3">>]

\* texts a user may type into a field
FieldSamples(k) ==
  CASE k = "email" ->
         { <<>>, <<" ">>, <<"a", "@", "b">>,
           <<"n", "o", "t", "-", "a", "n", "-", "e", "m", "a", "i", "l">> }
    [] k = "cardNumber" ->
         { <<>>, <<" ">>, <<"1", "2", "3">>, <<"a", "b", "c", "d">>,
           Digits(MinCardDigits - 1), Digits(MinCardDigits),
           Digits(MaxCardDigits), Digits(MaxCardDigits + 1),
           Digits(4) \o <<"-">> \o Digits(4) \o <<" ">> \o Digits(4) \o <<"-">> \o Digits(4) }
    [] k = "exp" ->
         { <<>>, <<" ">>, <<"1", "3", "/", "2", "5">>, <<"9", "/", "2", "7">>,
           <<"0", "0", "/", "2", "5">>, <<"1", "2", "/", "5">> }
    [] k = "cvc" ->
         { <<>>, <<" ">>, <<"1", "2">>, <<"1", "2", "3", "4">>,
           <<"1", "2", "3", "4", "5">>, <<"a", "b", "c">> }
    [] k \in {"phone", "address2"} -> { <<" ">>, <<"5", "5", "5">> }
    [] OTHER -> { <<>>, <<" ">>, <<"\t", " ">> }

\* the forms of the validation scenarios, each one handleChange away from a
\* base form
ScenarioForms ==
  { InitialForm,
    [InitialForm EXCEPT !.firstName = <<"J">>],
    ValidForm,
    [ValidForm EXCEPT !.firstName = <<>>],
    [ValidForm EXCEPT !.email = <<"n", "o", "t", "-", "a", "n", "-", "e", "m", "a", "i", "l">>],
    [ValidForm EXCEPT !.cardNumber = <<"1", "2", "3">>],
    [ValidForm EXCEPT !.exp = <<"1", "3", "/", "2", "5">>],
    [ValidForm EXCEPT !.phone = <<"5", "5", "5">>] }

\* the form is on screen: neither the success screen nor the empty-cart screen
FormVisible ==
  /\ app = "running"
  /\ mounted
  /\ ~Truthy(success)
  /\ items # <<>>

\* a submit button that is never disabled
submitNeverDisabled == FALSE

\* <Button type="submit" disabled={processing}>
submitDisabled == processing

\* const handleChange = (e) => setForm((f) => ({ ...f, [name]: value }))
handleChange(name, value) ==
  /\ FormVisible
  /\ form[name] # value
  /\ [form EXCEPT ![name] = value] \in ScenarioForms
  /\ form' = [form EXCEPT ![name] = value]
  /\ UNCHANGED <<mounted, errors, processing, success, awaiting, calls, orders>>
  /\ UNCHANGED <<cartVars, otherViews>>

\* the user fills in every field: the handleChange calls that lead to ValidForm
fillForm ==
  /\ FormVisible
  /\ form # ValidForm
  /\ form' = ValidForm
  /\ UNCHANGED <<mounted, errors, processing, success, awaiting, calls, orders>>
  /\ UNCHANGED <<cartVars, otherViews>>

\* placeOrder going on to the simulated call although validate() found errors
placeOrderStartNoReturn ==
  /\ FormVisible
  /\ ~submitDisabled
  /\ calls < MaxCalls
  /\ calls' = calls + 1
  /\ errors' = validate(form)
  /\ processing' = TRUE
  /\ awaiting' = awaiting + 1
  /\ UNCHANGED <<mounted, form, success, orders>>
  /\ UNCHANGED <<cartVars, otherViews>>

\* placeOrder up to its await: validate, setErrors, return on errors,
\* else setProcessing(true) and start the timer
placeOrderStart ==
  /\ FormVisible
  /\ ~submitDisabled
  /\ calls < MaxCalls
  /\ calls' = calls + 1
  /\ LET v == validate(form)
     IN  /\ errors' = v
         /\ IF HasErrors(v)
            THEN UNCHANGED <<processing, awaiting>>
            ELSE /\ processing' = TRUE
                 /\ awaiting' = awaiting + 1
  /\ UNCHANGED <<mounted, form, success, orders>>
  /\ UNCHANGED <<cartVars, otherViews>>

\* the continuation without clearCart()
placeOrderResumeKeepCart ==
  /\ awaiting > 0
  /\ app = "running"
  /\ awaiting' = awaiting - 1
  /\ orders' = orders + 1
  /\ \E orderId \in OrderIds :
       IF mounted
       THEN success' = orderId /\ processing' = FALSE
       ELSE UNCHANGED <<success, processing>>
  /\ UNCHANGED <<mounted, form, errors, calls>>
  /\ UNCHANGED <<cartVars, otherViews>>

\* the continuation without the finally block
placeOrderResumeNoFinally ==
  /\ awaiting > 0
  /\ awaiting' = awaiting - 1
  /\ orders' = orders + 1
  /\ \E orderId \in OrderIds :
       IF mounted
       THEN success' = orderId
       ELSE UNCHANGED success
  /\ DispatchCart([type |-> "CLEAR"])
  /\ UNCHANGED <<mounted, form, errors, calls, processing>>

\* a continuation that returns at once when the view has been left
placeOrderResumeIfMounted ==
  /\ awaiting > 0
  /\ awaiting' = awaiting - 1
  /\ orders' = orders + 1
  /\ IF mounted
     THEN /\ \E orderId \in OrderIds : success' = orderId
          /\ processing' = FALSE
          /\ DispatchCart([type |-> "CLEAR"])
     ELSE /\ app = "running"
          /\ UNCHANGED <<success, processing>>
          /\ UNCHANGED <<cartVars, otherViews>>
  /\ UNCHANGED <<mounted, form, errors, calls>>

\* placeOrder after the timer has fired: the order id, setSuccess, clearCart
\* and, in finally, setProcessing(false); the setters of a view that has been
\* left do nothing
placeOrderResume ==
  /\ awaiting > 0
  /\ awaiting' = awaiting - 1
  /\ orders' = orders + 1
  /\ \E orderId \in OrderIds :
       IF mounted
       THEN success' = orderId /\ processing' = FALSE
       ELSE UNCHANGED <<success, processing>>
  /\ DispatchCart([type |-> "CLEAR"])
  /\ UNCHANGED <<mounted, form, errors, calls>>

\* it.quantity || 1 in the order summary; a line item that has no quantity
\* field gives undefined
summaryQty(it) ==
  IF "quantity" \in DOMAIN it /\ it.quantity # 0 THEN it.quantity ELSE 1

\* (it.price || 0) * (it.quantity || 1)
summaryLine(it) == it.price * summaryQty(it)

\* items.reduce((s, it) => s + (it.price || 0) * (it.quantity || 1), 0)
RECURSIVE summarySubtotal(_)
summarySubtotal(its) ==
  IF its = <<>> THEN 0
  ELSE summarySubtotal(SubSeq(its, 1, Len(its) - 1)) + summaryLine(its[Len(its)])

\* the user navigates away: the view's state is discarded, a suspended
\* placeOrder call stays suspended
leaveCheckout ==
  /\ app = "running"
  /\ mounted
  /\ mounted' = FALSE
  /\ form' = InitialForm
  /\ errors' = NoErrors
  /\ processing' = FALSE
  /\ success' = NoOrder
  /\ UNCHANGED <<awaiting, calls, orders>>
  /\ UNCHANGED <<cartVars, otherViews>>

TwoLineCart ==
  << [id |-> 2, title |-> "B", price |-> 2500, image |-> "b.png", qty |-> 1],
     [id |-> 1, title |-> "A", price |-> 999, image |-> "a.png", qty |-> 2] >>

\* the Checkout view is opened over a cart that has been persisted
CheckoutInit ==
  /\ items \in {<<>>, EarlierCart, TwoLineCart}
  /\ cartCount = cartCountOf(items)
  /\ cartTotal = cartTotalOf(items)
  /\ storage = SnapshotOf(items)
  /\ persist = "written"
  /\ writeFailures = 0
  /\ lastAction = InitAction
  /\ prevItems = <<>>
  /\ provider \in Providers
  /\ app = "running"
  /\ mounted = TRUE
  /\ form = InitialForm
  /\ errors = NoErrors
  /\ processing = FALSE
  /\ success = NoOrder
  /\ awaiting = 0
  /\ calls = 0
  /\ orders = 0
  /\ OtherViewsAbsent

CheckoutNext ==
  \/ \E k \in Fields : \E v \in FieldSamples(k) \cup {ValidForm[k]} : handleChange(k, v)
  \/ fillForm
  \/ placeOrderStart
  \/ placeOrderResume
  \/ leaveCheckout
  \/ PersistEffect

CheckoutSpec == CheckoutInit /\ [][CheckoutNext]_vars

\* the timer of the simulated delay fires, and React runs scheduled effects
FairCheckoutSpec ==
  CheckoutSpec /\ WF_vars(placeOrderResume) /\ WF_vars(PersistEffect)

\* during the delay the user, on the product list by now, adds a product
addWhileAway(product) ==
  /\ ~mounted
  /\ awaiting > 0
  /\ addItemDefault(product)

\* a checkout during whose delay the cart may change
DelayNext ==
  \/ CheckoutNext
  \/ \E p \in Products : addWhileAway(p)

DelaySpec == CheckoutInit /\ [][DelayNext]_vars

(***************************************************************************)
(* validate() as a function of the form: the forms that differ from the    *)
(* initial or the valid form in at most MaxEdited fields are submitted.    *)
(***************************************************************************)
RECURSIVE EditedForms(_)
EditedForms(n) ==
  IF n = 0 THEN {InitialForm, ValidForm}
  ELSE LET fewer == EditedForms(n - 1)
       IN  fewer \cup { [f EXCEPT ![k] = v] :
                          f \in fewer, k \in Fields,
                          v \in UNION { FieldSamples(x) : x \in Fields } }

ValidateInit ==
  /\ items = EarlierCart
  /\ cartCount = cartCountOf(items)
  /\ cartTotal = cartTotalOf(items)
  /\ storage = SnapshotOf(items)
  /\ persist = "written"
  /\ writeFailures = 0
  /\ lastAction = InitAction
  /\ prevItems = <<>>
  /\ provider = "guarded"
  /\ app = "running"
  /\ mounted = TRUE
  /\ form \in EditedForms(MaxEdited)
  /\ errors = NoErrors
  /\ processing = FALSE
  /\ success = NoOrder
  /\ awaiting = 0
  /\ calls = 0
  /\ orders = 0
  /\ OtherViewsAbsent

ValidateNext == placeOrderStart

ValidateSpec == ValidateInit /\ [][ValidateNext]_vars

(***************************************************************************)
(* The product-details view: its fetch effect, keyed on the id route       *)
(* parameter, and the axios request the effect issues                      *)
(***************************************************************************)

RequestStates == {"inflight", "cancelled", "succeeded", "failed"}

\* a cleanup that leaves the request of the effect running
keepRequest(reqs) == reqs

\* the effect's cleanup, controller.abort(): a request still in flight is
\* rejected with a cancellation, a settled one is left as it is
abortController(reqs) ==
  IF reqs # <<>> /\ reqs[Len(reqs)].state = "inflight"
  THEN [reqs EXCEPT ![Len(reqs)].state = "cancelled"]
  ELSE reqs

\* a catch block that reports every rejection
catchAny(err) == FetchFailed

\* the catch block for a cancellation: if (axios.isCancel(err)) return
catchCancelled(err) == err

\* the user opens /products/:id: the first render, the effect still to run
openDetails(id) ==
  /\ ~detailsOpen
  /\ Len(requests) < MaxRequests
  /\ detailsOpen' = TRUE
  /\ routeId' = id
  /\ effectId' = 0
  /\ detailsProduct' = NullProduct
  /\ detailsLoading' = TRUE
  /\ detailsError' = NoError
  /\ UNCHANGED requests
  /\ UNCHANGED <<cartVars, checkoutVars, hookVars, debounceVars>>

\* the route parameter changes while the view stays mounted: a render with the
\* new id, the state kept, the effect still to run
navigate(id) ==
  /\ detailsOpen
  /\ effectId = routeId
  /\ id # routeId
  /\ Len(requests) < MaxRequests
  /\ routeId' = id
  /\ UNCHANGED <<detailsOpen, effectId, detailsProduct, detailsLoading,
                 detailsError, requests>>
  /\ UNCHANGED <<cartVars, checkoutVars, hookVars, debounceVars>>

\* useEffect(..., [id]): the cleanup of the previous run, then setLoading(true),
\* setError(null) and axios.get; a request the cleanup has cancelled then
\* runs its catch and its finally, setLoading(false), before any other event
fetchEffect ==
  /\ detailsOpen
  /\ effectId # routeId
  /\ Len(requests) < MaxRequests
  /\ LET cleaned   == IF effectId = 0 THEN requests ELSE abortController(requests)
         cancelled == cleaned # requests
     IN  /\ requests' = Append(cleaned, [id |-> routeId, state |-> "inflight"])
         /\ detailsError' = IF cancelled THEN catchCancelled(NoError) ELSE NoError
         /\ detailsLoading' = ~cancelled
  /\ effectId' = routeId
  /\ UNCHANGED <<detailsOpen, routeId, detailsProduct>>
  /\ UNCHANGED <<cartVars, checkoutVars, hookVars, debounceVars>>

\* a request in flight settles: setProduct(data) on a response, setError on a
\* rejection, and setLoading(false) in finally
respond(n, ok) ==
  /\ detailsOpen
  /\ n \in 1..Len(requests)
  /\ requests[n].state = "inflight"
  /\ IF ok
     THEN /\ \E data \in {p \in Products : p.id = requests[n].id} :
               detailsProduct' = data
          /\ requests' = [requests EXCEPT ![n].state = "succeeded"]
          /\ UNCHANGED detailsError
     ELSE /\ detailsError' = FetchFailed
          /\ requests' = [requests EXCEPT ![n].state = "failed"]
          /\ UNCHANGED detailsProduct
  /\ detailsLoading' = FALSE
  /\ UNCHANGED <<detailsOpen, routeId, effectId>>
  /\ UNCHANGED <<cartVars, checkoutVars, hookVars, debounceVars>>

\* the view unmounts: the effect's cleanup runs and the state is discarded
closeDetails ==
  /\ detailsOpen
  /\ detailsOpen' = FALSE
  /\ routeId' = 0
  /\ effectId' = 0
  /\ detailsProduct' = NullProduct
  /\ detailsLoading' = TRUE
  /\ detailsError' = NoError
  /\ requests' = IF effectId = 0 THEN requests ELSE abortController(requests)
  /\ UNCHANGED <<cartVars, checkoutVars, hookVars, debounceVars>>

\* a store with an empty cart and no view on screen
FetchInit ==
  /\ items = <<>>
  /\ cartCount = 0
  /\ cartTotal = 0
  /\ storage = SnapshotOf(<<>>)
  /\ persist = "written"
  /\ writeFailures = 0
  /\ lastAction = InitAction
  /\ prevItems = <<>>
  /\ provider = "guarded"
  /\ app = "running"
  /\ CheckoutAbsent
  /\ DetailsAbsent
  /\ HookAbsent
  /\ DebounceAbsent

FetchNext ==
  \/ \E id \in ProductIds : openDetails(id)
  \/ \E id \in ProductIds : navigate(id)
  \/ fetchEffect
  \/ \E n \in 1..MaxRequests, ok \in BOOLEAN : respond(n, ok)
  \/ closeDetails

FetchSpec == FetchInit /\ [][FetchNext]_vars

(***************************************************************************)
(* useLocalStorage(key, initialValue) holding a number.  The setValue of a *)
(* render reads the storedValue of that render; setStoredValue takes       *)
(* effect for the code at the next render.                                 *)
(***************************************************************************)

\* JSON.parse accepts the text as a number
ParsesAsNumber(text) ==
  /\ text # <<>>
  /\ \A n \in 1..Len(text) : IsDigit(text[n])

\* the lazy initializer of useState: the parsed item, or initialValue when the
\* item is null or empty or JSON.parse throws
readInitial(item, initialValue) ==
  IF item.present /\ item.text # <<>>
  THEN IF ParsesAsNumber(item.text) THEN LiteralToValue(item.text)
       ELSE initialValue
  ELSE initialValue

\* the updater functions handed to setValue
Updaters == {"inc", "double"}

Apply(fn, v) == IF fn = "inc" THEN v + 1 ELSE 2 * v

\* the arguments of setValue: a value, or an updater function
DirectArg(v) == [value |-> v, fn |-> "none", isFunction |-> FALSE]

UpdaterArg(fn) == [value |-> 0, fn |-> fn, isFunction |-> TRUE]

\* what in a setValue call throws: nothing, the updater, JSON.stringify or
\* localStorage.setItem
Faults == {"none", "updater", "stringify", "setItem"}

\* value instanceof Function ? value(storedValue) : value
resolve(value, closure) ==
  IF value.isFunction THEN Apply(value.fn, closure) ELSE value.value

\* setValue(value): the resolved value goes to setStoredValue and then, as
\* JSON, to localStorage; whatever throws on the way is caught and logged
setValue(value, fault) ==
  /\ setCalls < MaxSetCalls
  /\ setCalls' = setCalls + 1
  /\ fault = "updater" => value.isFunction
  /\ IF fault = "none"
     THEN UNCHANGED hookFailures
     ELSE /\ hookFailures < MaxHookFailures
          /\ hookFailures' = hookFailures + 1
  /\ LET valueToStore == resolve(value, storedValue)
     IN  /\ valueToStore \in 0..MaxValue
         /\ stateValue' = IF fault = "updater" THEN stateValue ELSE valueToStore
         /\ hookStorage' = IF fault = "none"
                           THEN Item(NumberToJSON(valueToStore))
                           ELSE hookStorage
  /\ burst' = Append(burst, [value |-> value, fault |-> fault])
  /\ UNCHANGED <<storedValue, raised>>
  /\ UNCHANGED <<cartVars, checkoutVars, fetchVars, debounceVars>>

\* setValue called with a value and with an updater function
setValueOf(v, fault) == setValue(DirectArg(v), fault)

setValueBy(fn, fault) == setValue(UpdaterArg(fn), fault)

\* the component renders again: the hook returns the state value and a
\* setValue that has captured it
rerender ==
  /\ burst # <<>>
  /\ storedValue' = stateValue
  /\ burst' = <<>>
  /\ UNCHANGED <<stateValue, hookStorage, raised, setCalls, hookFailures>>
  /\ UNCHANGED <<cartVars, checkoutVars, fetchVars, debounceVars>>

\* the items the key may hold when the component mounts
HookInitialStorage ==
  { NoItem, Item(<<>>), Item(NumberToJSON(1)), Item(<<"{">>) }

\* the first render of a component that uses the hook
HookInit ==
  /\ items = <<>>
  /\ cartCount = 0
  /\ cartTotal = 0
  /\ storage = SnapshotOf(<<>>)
  /\ persist = "written"
  /\ writeFailures = 0
  /\ lastAction = InitAction
  /\ prevItems = <<>>
  /\ provider = "guarded"
  /\ app = "running"
  /\ CheckoutAbsent
  /\ DetailsAbsent
  /\ DebounceAbsent
  /\ hookStorage \in HookInitialStorage
  /\ storedValue = readInitial(hookStorage, InitialValue)
  /\ stateValue = storedValue
  /\ burst = <<>>
  /\ raised = FALSE
  /\ setCalls = 0
  /\ hookFailures = 0

HookNext ==
  \/ \E v \in 0..MaxValue, fault \in Faults : setValueOf(v, fault)
  \/ \E fn \in Updaters, fault \in Faults : setValueBy(fn, fault)
  \/ rerender

HookSpec == HookInit /\ [][HookNext]_vars

(***************************************************************************)
(* The timers of the browser, and useDebounceCallback(callback, delay,     *)
(* deps).  A render follows the state update that causes it before time    *)
(* passes, and a timer runs at the time it is due.                         *)
(***************************************************************************)

\* the delay argument of both hooks, in units of time
Delay == 2

\* the arguments the debounced function is called with
DebounceArgs == {"a", "b"}

\* setTimeout(fn, delay) at time t; fn is named by kind and arg
setTimeout(ts, id, t, kind, arg, call) ==
  ts \cup {[id |-> id, due |-> t + Delay, kind |-> kind, arg |-> arg, call |-> call]}

\* clearTimeout(id); an id that is not pending, or null, clears nothing
clearTimeout(ts, id) == {t \in ts : t.id # id}

Due(t) == t.due <= now

\* the two copies of useDebounceCallback: part_007 declares deps = [],
\* part_008 has no default
HookCopies == {"part_007", "part_008"}

\* deps as the component passes it: the same values at every render, nothing,
\* or values that differ at every render
DepsUses == {"stable", "omitted", "changing"}

\* useEffect(..., deps) runs again after a render
depsEffectRuns ==
  \/ depsUse = "changing"
  \/ depsUse = "omitted" /\ hookCopy = "part_008"

\* debouncedCallback(...args) of the last render: clearTimeout of the timer
\* that render has seen, setTimeout, setDebounceTimer(newTimer)
debouncedCallback(args) ==
  /\ cbMounted
  /\ Len(callLog) < MaxDebounceCalls
  /\ now + Delay <= MaxTime
  /\ timers' = setTimeout(clearTimeout(timers, debounceTimer), nextTimerId, now,
                          "callback", args, Len(callLog) + 1)
  /\ latestTimer' = nextTimerId
  /\ nextTimerId' = nextTimerId + 1
  /\ renderDue' = TRUE
  /\ callLog' = Append(callLog, [args |-> args, at |-> now])
  /\ UNCHANGED <<now, cbMounted, debounceTimer, depsUse, hookCopy, invoked>>
  /\ UNCHANGED <<cartVars, checkoutVars, fetchVars, hookVars, valueVars>>

\* the render after setDebounceTimer and its effects: the cleanup of the
\* [debounceTimer] effect clears the timer of the render before; the deps
\* effect, when it runs, clears the timer of this render and sets the state
\* to null, and the render that follows finds nothing to clear
renderCallback ==
  /\ cbMounted
  /\ renderDue
  /\ renderDue' = FALSE
  /\ LET cleaned == clearTimeout(timers, debounceTimer)
     IN  IF depsEffectRuns /\ latestTimer # 0
         THEN /\ timers' = clearTimeout(cleaned, latestTimer)
              /\ debounceTimer' = 0
              /\ latestTimer' = 0
         ELSE /\ timers' = cleaned
              /\ debounceTimer' = latestTimer
              /\ UNCHANGED latestTimer
  /\ UNCHANGED <<now, nextTimerId, cbMounted, depsUse, hookCopy, callLog, invoked>>
  /\ UNCHANGED <<cartVars, checkoutVars, fetchVars, hookVars, valueVars>>

\* a timer of debouncedCallback is due: callback(...args)
fireCallback ==
  /\ ~renderDue
  /\ \E t \in timers :
       /\ t.kind = "callback"
       /\ Due(t)
       /\ timers' = timers \ {t}
       /\ invoked' = Append(invoked, [args |-> t.arg, at |-> now, call |-> t.call,
                                      latest |-> Len(callLog)])
  /\ UNCHANGED <<now, nextTimerId, cbMounted, debounceTimer, latestTimer,
                 renderDue, depsUse, hookCopy, callLog>>
  /\ UNCHANGED <<cartVars, checkoutVars, fetchVars, hookVars, valueVars>>

\* the component unmounts: the cleanup of the [debounceTimer] effect
unmountCallback ==
  /\ cbMounted
  /\ ~renderDue
  /\ cbMounted' = FALSE
  /\ timers' = clearTimeout(timers, debounceTimer)
  /\ UNCHANGED <<now, nextTimerId, debounceTimer, latestTimer, renderDue, depsUse,
                 hookCopy, callLog, invoked>>
  /\ UNCHANGED <<cartVars, checkoutVars, fetchVars, hookVars, valueVars>>

\* a unit of time passes: no render is outstanding and no timer is due
tick ==
  /\ now < MaxTime
  /\ ~renderDue
  /\ \A t \in timers : ~Due(t)
  /\ now' = now + 1
  /\ UNCHANGED <<timers, nextTimerId, callbackVars, valueVars>>
  /\ UNCHANGED <<cartVars, checkoutVars, fetchVars, hookVars>>

\* a store with an empty cart, no view on screen and no other hook in use
NothingElse ==
  /\ items = <<>>
  /\ cartCount = 0
  /\ cartTotal = 0
  /\ storage = SnapshotOf(<<>>)
  /\ persist = "written"
  /\ writeFailures = 0
  /\ lastAction = InitAction
  /\ prevItems = <<>>
  /\ provider = "guarded"
  /\ app = "running"
  /\ CheckoutAbsent
  /\ DetailsAbsent
  /\ HookAbsent

\* the first render of a component that uses useDebounceCallback: useState(null)
CallbackInit ==
  /\ NothingElse
  /\ ClockAtStart
  /\ ValueAbsent
  /\ cbMounted = TRUE
  /\ debounceTimer = 0
  /\ latestTimer = 0
  /\ renderDue = FALSE
  /\ depsUse \in DepsUses
  /\ hookCopy \in HookCopies
  /\ callLog = <<>>
  /\ invoked = <<>>

CallbackNext ==
  \/ \E args \in DebounceArgs : debouncedCallback(args)
  \/ renderCallback
  \/ fireCallback
  \/ unmountCallback
  \/ tick

CallbackSpec == CallbackInit /\ [][CallbackNext]_vars

\* React renders after a state update, the browser runs a timer that is due,
\* and time passes
FairCallbackSpec ==
  /\ CallbackSpec
  /\ WF_vars(renderCallback)
  /\ WF_vars(fireCallback)
  /\ WF_vars(tick)

(***************************************************************************)
(* useDebounce(value, delay)                                               *)
(***************************************************************************)

\* the values the component passes as value
Inputs == {0, 1, 2}

\* an effect that returns no cleanup
noCleanup(ts, id) == ts

\* the cleanup the effect returns: clearTimeout(timer)
effectCleanup(ts, id) == clearTimeout(ts, id)

\* a render with a new value: the cleanup of the [value, delay] effect, then
\* the effect, which sets the timer for setDebouncedValue(value)
changeInput(v) ==
  /\ dvMounted
  /\ v # inputValue
  /\ nextTimerId < MaxInputChanges + 2
  /\ now + Delay <= MaxTime
  /\ inputValue' = v
  /\ inputSince' = now
  /\ timers' = setTimeout(effectCleanup(timers, effectTimer), nextTimerId, now,
                          "setDebouncedValue", v, 0)
  /\ effectTimer' = nextTimerId
  /\ nextTimerId' = nextTimerId + 1
  /\ UNCHANGED <<now, dvMounted, debouncedValue, callbackVars>>
  /\ UNCHANGED <<cartVars, checkoutVars, fetchVars, hookVars>>

\* the timer of the effect is due: setDebouncedValue(value); the render it
\* causes leaves value and delay as they were, so no effect runs
fireValue ==
  /\ \E t \in timers :
       /\ t.kind = "setDebouncedValue"
       /\ Due(t)
       /\ timers' = timers \ {t}
       /\ debouncedValue' = t.arg
  /\ UNCHANGED <<now, nextTimerId, dvMounted, inputValue, inputSince, effectTimer,
                 callbackVars>>
  /\ UNCHANGED <<cartVars, checkoutVars, fetchVars, hookVars>>

\* the component unmounts: the cleanup of the effect
unmountValue ==
  /\ dvMounted
  /\ dvMounted' = FALSE
  /\ timers' = effectCleanup(timers, effectTimer)
  /\ UNCHANGED <<now, nextTimerId, inputValue, inputSince, debouncedValue,
                 effectTimer, callbackVars>>
  /\ UNCHANGED <<cartVars, checkoutVars, fetchVars, hookVars>>

\* the first render, useState(value), and the effect it schedules
ValueInit ==
  /\ NothingElse
  /\ CallbackAbsent
  /\ now = 0
  /\ dvMounted = TRUE
  /\ inputValue \in Inputs
  /\ inputSince = 0
  /\ debouncedValue = inputValue
  /\ timers = setTimeout({}, 1, 0, "setDebouncedValue", inputValue, 0)
  /\ effectTimer = 1
  /\ nextTimerId = 2

ValueNext ==
  \/ \E v \in Inputs : changeInput(v)
  \/ fireValue
  \/ unmountValue
  \/ tick

ValueSpec == ValueInit /\ [][ValueNext]_vars

\* the browser runs a timer that is due, and time passes
FairValueSpec == ValueSpec /\ WF_vars(fireValue) /\ WF_vars(tick)

(***************************************************************************)
(* Vocabulary of the properties                                            *)
(***************************************************************************)
InCart(its, id) == \E n \in 1..Len(its) : its[n].id = id

LinesOf(its, id) == { n \in 1..Len(its) : its[n].id = id }

Lines(its) == { its[n] : n \in 1..Len(its) }

LineItemFields == {"id", "title", "price", "image", "qty"}

RECURSIVE SumOfQty(_)
SumOfQty(its) ==
  IF Len(its) = 0 THEN 0
  ELSE its[Len(its)].qty + SumOfQty(SubSeq(its, 1, Len(its) - 1))

RECURSIVE SumOfLineTotals(_)
SumOfLineTotals(its) ==
  IF Len(its) = 0 THEN 0
  ELSE its[Len(its)].price * its[Len(its)].qty
         + SumOfLineTotals(SubSeq(its, 1, Len(its) - 1))

LastWas(type) == lastAction.type = type

(***************************************************************************)
(* C1: the cart never holds two line items with the same product id.       *)
(***************************************************************************)
C1_OneLinePerId ==
  \A m, n \in 1..Len(items) : m # n => items[m].id # items[n].id

\* an add of an id that was already in a two-line cart
C1_Witness ==
  /\ LastWas("ADD")
  /\ Len(prevItems) = 2
  /\ InCart(prevItems, lastAction.payload.product.id)
  /\ Len(items) = 2

(***************************************************************************)
(* C2: every line item in the cart has quantity >= 1, whatever integer     *)
(* quantities addItem and updateQty were called with.                      *)
(***************************************************************************)
C2_QuantityAtLeastOne ==
  \A n \in 1..Len(items) : items[n].qty >= 1

(***************************************************************************)
(* C3: cartCount is the sum of the quantities and cartTotal the sum of     *)
(* price * quantity over the current line items, in every state.           *)
(***************************************************************************)
C3_DerivedValues ==
  /\ cartCount = SumOfQty(items)
  /\ cartTotal = SumOfLineTotals(items)

\* a mutation that changed both derived values of a two-line cart
C3_Witness ==
  /\ ~LastWas("INIT")
  /\ Len(items) = 2
  /\ cartCount # SumOfQty(prevItems)
  /\ cartTotal # SumOfLineTotals(prevItems)
  /\ cartTotal > 0

(***************************************************************************)
(* C4: addItem(P, k) for a product P in the cart with quantity q leaves    *)
(* P's line with quantity q + k and the number of lines unchanged.         *)
(***************************************************************************)
C4_AddExisting ==
  (LastWas("ADD") /\ InCart(prevItems, lastAction.payload.product.id)) =>
    LET id == lastAction.payload.product.id
        k  == lastAction.payload.qty
    IN  /\ Len(items) = Len(prevItems)
        /\ LinesOf(items, id) = LinesOf(prevItems, id)
        /\ \A n \in LinesOf(items, id) : items[n].qty = prevItems[n].qty + k

\* a product with quantity 1 was added again with k = 1
C4_Witness ==
  /\ LastWas("ADD")
  /\ lastAction.payload.qty = 1
  /\ \E n \in 1..Len(prevItems) :
       /\ prevItems[n].id = lastAction.payload.product.id
       /\ prevItems[n].qty = 1
       /\ items[n].qty = 2

(***************************************************************************)
(* C5: addItem(P, k) for a product P that is not in the cart leaves        *)
(* exactly one line for P, with quantity k and with only P's id, title,    *)
(* price and image besides the quantity.                                   *)
(***************************************************************************)
C5_AddNew ==
  (LastWas("ADD") /\ ~InCart(prevItems, lastAction.payload.product.id)) =>
    LET P == lastAction.payload.product
        k == lastAction.payload.qty
    IN  /\ Cardinality(LinesOf(items, P.id)) = 1
        /\ \A n \in LinesOf(items, P.id) :
             /\ DOMAIN items[n] = LineItemFields
             /\ items[n].id = P.id
             /\ items[n].title = P.title
             /\ items[n].price = P.price
             /\ items[n].image = P.image
             /\ items[n].qty = k

\* the edited version of product 1 was added to a cart holding product 2 only
C5_Witness ==
  /\ LastWas("ADD")
  /\ Len(prevItems) = 1
  /\ ~InCart(prevItems, lastAction.payload.product.id)
  /\ lastAction.payload.product.title = "A2"
  /\ Len(items) = 2
  /\ items[2].qty = lastAction.payload.qty

(***************************************************************************)
(* C6: updateQuantity(id, q) on an id in the cart removes its line when    *)
(* q <= 0 and sets its quantity to exactly q, keeping the line, when       *)
(* q >= 1.                                                                 *)
(***************************************************************************)
C6_UpdateQuantity ==
  (LastWas("UPDATE_QTY") /\ InCart(prevItems, lastAction.payload.id)) =>
    LET id == lastAction.payload.id
        q  == lastAction.payload.qty
    IN  IF q <= 0 THEN ~InCart(items, id)
        ELSE /\ InCart(items, id)
             /\ LinesOf(items, id) = LinesOf(prevItems, id)
             /\ \A n \in LinesOf(items, id) : items[n].qty = q

\* updateQuantity(id, 0) removed a line of a two-line cart
C6_Witness ==
  /\ LastWas("UPDATE_QTY")
  /\ lastAction.payload.qty = 0
  /\ Len(prevItems) = 2
  /\ InCart(prevItems, lastAction.payload.id)
  /\ Len(items) = 1

(***************************************************************************)
(* C7: removeItem(id) removes the line with that id and leaves every other *)
(* line as it was; for an id that is not in the cart the cart is           *)
(* unchanged.                                                              *)
(***************************************************************************)
C7_RemoveItem ==
  LastWas("REMOVE") =>
    LET id == lastAction.payload.id
    IN  /\ ~InCart(items, id)
        /\ Lines(items) = { i \in Lines(prevItems) : i.id # id }
        /\ Len(items) = Len(prevItems) - Cardinality(LinesOf(prevItems, id))
        /\ ~InCart(prevItems, id) => items = prevItems

\* the first line of a two-line cart was removed
C7_Witness ==
  /\ LastWas("REMOVE")
  /\ Len(prevItems) = 2
  /\ prevItems[1].id = lastAction.payload.id
  /\ items = <<prevItems[2]>>

(***************************************************************************)
(* C8: updateQuantity(id, q) for an id that is not in the cart leaves the  *)
(* cart unchanged, for positive, zero and negative q.                      *)
(***************************************************************************)
C8_UpdateAbsent ==
  (LastWas("UPDATE_QTY") /\ ~InCart(prevItems, lastAction.payload.id)) =>
    items = prevItems

\* updateQuantity with a positive q for an absent id on a non-empty cart
C8_Witness ==
  /\ LastWas("UPDATE_QTY")
  /\ lastAction.payload.qty = 2
  /\ prevItems # <<>>
  /\ prevItems[1].qty = 1
  /\ ~InCart(prevItems, lastAction.payload.id)

(***************************************************************************)
(* C9: after clear() the cart is empty and count and total are both 0.     *)
(***************************************************************************)
C9_Clear ==
  LastWas("CLEAR") => (items = <<>> /\ cartCount = 0 /\ cartTotal = 0)

\* a two-line cart was cleared
C9_Witness ==
  /\ LastWas("CLEAR")
  /\ Len(prevItems) = 2
  /\ SumOfLineTotals(prevItems) > 0

(***************************************************************************)
(* C10: once the snapshot of the current cart has been written, a fresh    *)
(* store initialized from the storage has a cart equal to the current one. *)
(***************************************************************************)
C10_RoundTrip ==
  persist = "written" => loadInitial(storage) = items

\* a fresh store came up with a two-line cart holding the edited product 1 and
\* has written it back
C10_Witness ==
  /\ LastWas("INIT")
  /\ persist = "written"
  /\ Len(items) = 2
  /\ \E n \in 1..2 : items[n].title = "A2" /\ items[n].qty = 2

(***************************************************************************)
(* C11: every write to the storage key stores the snapshot of the cart the *)
(* store is in, and a persist that a mutation has scheduled leads to the   *)
(* stored snapshot being that of the in-memory cart, unless the write      *)
(* fails.                                                                  *)
(***************************************************************************)
C11_PersistOnMutation ==
  /\ [][storage' # storage => (storage' = SnapshotOf(items) /\ items' = items)]_vars
  /\ (persist = "pending" /\ app = "running")
       ~> \/ persist = "written" /\ storage = SnapshotOf(items)
          \/ persist = "failed"
          \/ app # "running"

\* the snapshot of a two-line cart produced by an add has been written
C11_Witness ==
  /\ LastWas("ADD")
  /\ Len(items) = 2
  /\ persist = "written"
  /\ storage = SnapshotOf(items)
  /\ storage # SnapshotOf(prevItems)

(***************************************************************************)
(* C12: a failed storage write is swallowed: the application keeps running *)
(* on the in-memory cart.                                                  *)
(***************************************************************************)
C12_WriteFailureSwallowed ==
  persist = "failed" => app = "running"

(***************************************************************************)
(* C13: initialization never crashes, whatever the storage key holds.      *)
(***************************************************************************)
C13_InitNeverCrashes ==
  app # "renderCrashed"

(***************************************************************************)
(* The state of a checkout attempt, read off the view and the suspended    *)
(* placeOrder call.                                                        *)
(***************************************************************************)
Phase ==
  IF awaiting > 0 THEN "Processing"
  ELSE IF orders > 0 THEN "Succeeded"
  ELSE IF HasErrors(errors) THEN "Invalid"
  ELSE "Idle"

PhaseSteps ==
  { <<"Idle", "Invalid">>, <<"Invalid", "Invalid">>, <<"Invalid", "Idle">>,
    <<"Idle", "Processing">>, <<"Invalid", "Processing">>,
    <<"Processing", "Succeeded">> }

(***************************************************************************)
(* C14: a submission for which validate() returns errors shows them and    *)
(* goes no further: processing is not set, no order id is generated, the   *)
(* cart and its stored snapshot stay as they are.                          *)
(***************************************************************************)
C14_InvalidStops ==
  [][(calls' > calls /\ HasErrors(validate(form))) =>
       /\ errors' = validate(form)
       /\ HasErrors(errors')
       /\ ~processing'
       /\ awaiting' = awaiting
       /\ orders' = orders
       /\ success' = success
       /\ cartVars' = cartVars]_vars

\* an invalid form has been submitted over a non-empty cart
C14_Witness ==
  /\ calls = 1
  /\ HasErrors(errors)
  /\ "cardNumber" \in DOMAIN errors
  /\ items = TwoLineCart
  /\ ~processing
  /\ orders = 0

(***************************************************************************)
(* C15: a checkout attempt moves Idle -> Invalid -> Idle or                *)
(* Idle -> Processing -> Succeeded only; a submission of a valid form      *)
(* enters Processing and leads to Succeeded; on reaching Succeeded an      *)
(* order id has been produced and the cart is empty.                       *)
(***************************************************************************)
C15_CheckoutStateMachine ==
  /\ [][Phase' # Phase => <<Phase, Phase'>> \in PhaseSteps]_vars
  /\ [][(calls' > calls /\ ~HasErrors(validate(form))) =>
          (Phase' = "Processing" /\ processing')]_vars
  /\ [][orders' > orders =>
          /\ Phase = "Processing"
          /\ items' = <<>>
          /\ cartCount' = 0
          /\ mounted => (Truthy(success') /\ success' \in OrderIds)]_vars
  /\ (Phase = "Processing") ~> (Phase = "Succeeded")

\* the success screen over the emptied cart, after an invalid and a valid submission
C15_Witness ==
  /\ Phase = "Succeeded"
  /\ calls = 2
  /\ Truthy(success)
  /\ items = <<>>
  /\ prevItems = TwoLineCart

(***************************************************************************)
(* C16: processing is false whenever no placeOrder call is suspended, and  *)
(* whenever it is true it becomes false again.                             *)
(***************************************************************************)
C16_ProcessingReset ==
  /\ [](awaiting = 0 => ~processing)
  /\ processing ~> ~processing

\* processing has been reset by a call that completed while the view was mounted
C16_Witness ==
  /\ orders = 1
  /\ awaiting = 0
  /\ mounted
  /\ ~processing
  /\ Truthy(success)

(***************************************************************************)
(* C17: at most one placeOrder call is suspended at any time, and at most  *)
(* one order id is generated and the cart cleared once per visit.          *)
(***************************************************************************)
C17_SingleInFlight ==
  /\ awaiting <= 1
  /\ orders <= 1
  /\ awaiting + orders <= 1
  /\ (awaiting = 1 /\ mounted) => submitDisabled

\* a call is suspended in the delay, after an earlier invalid submission
C17_Witness ==
  /\ awaiting = 1
  /\ calls = 2
  /\ processing
  /\ mounted

\* the request of the latest run of the fetch effect
LatestRequest == requests[Len(requests)]

Superseded(n) == n < Len(requests) /\ requests[n].state = "cancelled"

(***************************************************************************)
(* C18: while the product-details view is on screen, every change of the   *)
(* displayed product is the response to the latest request issued, and     *)
(* once the request for the current id has succeeded the displayed product *)
(* is the one with that id, whatever became of the requests before it.     *)
(***************************************************************************)
C18_SupersededNeverOverwrites ==
  /\ []((/\ detailsOpen
         /\ effectId = routeId
         /\ LatestRequest.state = "succeeded") => detailsProduct.id = routeId)
  /\ [][(detailsOpen /\ detailsOpen' /\ detailsProduct' # detailsProduct) =>
          /\ requests'[Len(requests)].state = "succeeded"
          /\ LatestRequest.state = "inflight"
          /\ detailsProduct'.id = LatestRequest.id]_vars

\* the request for id 1 was superseded by the one for id 2, which succeeded
C18_Witness ==
  /\ detailsOpen
  /\ requests = <<[id |-> 1, state |-> "cancelled"],
                  [id |-> 2, state |-> "succeeded"]>>
  /\ routeId = 2
  /\ detailsProduct.id = 2

(***************************************************************************)
(* C19: a step that cancels a request in flight leaves the view without an *)
(* error, and a step in which a request in flight fails sets the view's    *)
(* error to the failure message.                                           *)
(***************************************************************************)
C19_CancelIsNotFailure ==
  [][\A n \in 1..Len(requests) :
       requests[n].state = "inflight" =>
         /\ requests'[n].state = "cancelled" => detailsError' = NoError
         /\ requests'[n].state = "failed" =>
              (detailsError' = FetchFailed /\ ~detailsLoading')]_vars

\* one request was superseded without an error, a later one failed
C19_Witness ==
  /\ detailsOpen
  /\ Len(requests) = 2
  /\ Superseded(1)
  /\ requests[2].state = "failed"
  /\ detailsError = FetchFailed

(***************************************************************************)
(* C20: after validate(), every required field whose text is empty after   *)
(* trimming has the error "Required", and phone and address2 have none.    *)
(***************************************************************************)
C20_RequiredFields ==
  calls > 0 =>
    /\ \A k \in RequiredFields :
         TrimIsEmpty(form[k]) => (k \in DOMAIN errors /\ errors[k] = "Required")
    /\ "phone" \notin DOMAIN errors
    /\ "address2" \notin DOMAIN errors

(***************************************************************************)
(* C21: after validate(), a form whose card number is not the empty text   *)
(* has an error for cardNumber exactly when the number of digits in it is  *)
(* below 12 or above 19.                                                   *)
(***************************************************************************)
C21_CardNumber ==
  (calls > 0 /\ form.cardNumber # <<>>) =>
    LET count == Len(digitsOnly(form.cardNumber))
    IN  ("cardNumber" \in DOMAIN errors) <=>
          (count < MinCardDigits \/ count > MaxCardDigits)

\* the value useState holds after the setter calls of a burst: each updater is
\* applied to the value the call before it has left
RECURSIVE useStateResult(_, _)
useStateResult(v, cs) ==
  IF cs = <<>> THEN v
  ELSE useStateResult(
         IF Head(cs).value.isFunction
         THEN Apply(Head(cs).value.fn, v)
         ELSE Head(cs).value.value,
         Tail(cs))

Faultless(cs) == \A n \in 1..Len(cs) : cs[n].fault = "none"

\* the number the localStorage item parses to is v
StoredIs(v) ==
  /\ hookStorage.present
  /\ ParsesAsNumber(hookStorage.text)
  /\ LiteralToValue(hookStorage.text) = v

(***************************************************************************)
(* C22: after setValue calls made from one render, in none of which        *)
(* anything threw, the state value and the stored value are what useState  *)
(* would hold: every updater applied to the result of the call before it.  *)
(***************************************************************************)
C22_FunctionalUpdates ==
  (burst # <<>> /\ Faultless(burst)) =>
    /\ stateValue = useStateResult(storedValue, burst)
    /\ StoredIs(useStateResult(storedValue, burst))

(***************************************************************************)
(* C23: once setValue has been called, no call has thrown to its caller    *)
(* and the hook's state value is the value stored under the key.           *)
(***************************************************************************)
C23_StateMatchesStorage ==
  setCalls > 0 => (~raised /\ StoredIs(stateValue))

\* the timers of debouncedCallback that are pending
PendingInvocations == {t \in timers : t.kind = "callback"}

\* the number of invocations of callback that the n-th call has caused
RECURSIVE InvocationsOf(_, _)
InvocationsOf(n, invs) ==
  IF invs = <<>> THEN 0
  ELSE (IF Head(invs).call = n THEN 1 ELSE 0) + InvocationsOf(n, Tail(invs))

(***************************************************************************)
(* C24: at most one invocation of callback is pending, and every           *)
(* invocation is the one of the last call made before it, has the          *)
(* arguments of that call and runs no earlier than Delay after it.         *)
(***************************************************************************)
C24_DebouncedCallback ==
  /\ Cardinality(PendingInvocations) <= 1
  /\ \A n \in 1..Len(invoked) :
       /\ invoked[n].call = invoked[n].latest
       /\ invoked[n].args = callLog[invoked[n].latest].args
       /\ invoked[n].at >= callLog[invoked[n].latest].at + Delay

(***************************************************************************)
(* C30: a call of the debounced function that no further call and no       *)
(* unmount follows leads to an invocation of callback for it, and no call  *)
(* is ever invoked twice, however the component passes deps.               *)
(***************************************************************************)
C30_EventuallyOnce ==
  /\ [](\A n \in 1..MaxDebounceCalls : InvocationsOf(n, invoked) <= 1)
  /\ \A n \in 1..MaxDebounceCalls :
       (cbMounted /\ Len(callLog) = n) ~>
         (\/ ~cbMounted
          \/ Len(callLog) > n
          \/ InvocationsOf(n, invoked) = 1)

\* the timers of useDebounce that are pending
PendingUpdates == {t \in timers : t.kind = "setDebouncedValue"}

C26_LoadingWhilePending ==
  (detailsOpen /\ requests # <<>> /\ LatestRequest.state = "inflight") =>
    detailsLoading

(***************************************************************************)
(* C27: while the checkout form is on screen, the order summary shows for  *)
(* every line item the quantity the store holds, and its items subtotal is *)
(* cartTotal.                                                              *)
(***************************************************************************)
C27_SummaryMatchesStore ==
  FormVisible =>
    /\ \A n \in 1..Len(items) : summaryQty(items[n]) = items[n].qty
    /\ summarySubtotal(items) = cartTotal

(***************************************************************************)
(* C28: the step in which the continuation of placeOrder runs leaves the   *)
(* cart empty and the view's success state holding an order id, whatever   *)
(* happened during the delay.                                              *)
(***************************************************************************)
C28_ContinuationRegardless ==
  [][orders' > orders => (items' = <<>> /\ Truthy(success'))]_vars

(***************************************************************************)
(* C28, amended: the step in which the continuation of placeOrder runs     *)
(* leaves the cart empty, line items added during the delay included; the  *)
(* success state holds an order id if the view is still mounted, and no    *)
(* order id is kept if the user has left the view.                         *)
(***************************************************************************)
C28_ContinuationAmended ==
  [][orders' > orders =>
       /\ items' = <<>>
       /\ cartCount' = 0
       /\ cartTotal' = 0
       /\ IF mounted THEN Truthy(success') /\ success' \in OrderIds
                     ELSE success' = NoOrder]_vars

\* the user left during the delay and added product 2 to a cart that held
\* product 1; the continuation has emptied the cart and no order id is kept
C28_Witness ==
  /\ orders = 1
  /\ ~mounted
  /\ LastWas("CLEAR")
  /\ items = <<>>
  /\ Len(prevItems) = 2
  /\ prevItems[1].id = 1
  /\ prevItems[2].id = 2
  /\ success = NoOrder

\* the line items of a cart whose id is not the given one, in their order
RECURSIVE OtherLines(_, _)
OtherLines(its, id) ==
  IF its = <<>> THEN <<>>
  ELSE IF Head(its).id = id THEN OtherLines(Tail(its), id)
       ELSE <<Head(its)>> \o OtherLines(Tail(its), id)

\* the id the last addItem or updateQty was called with
TargetId ==
  IF LastWas("ADD") THEN lastAction.payload.product.id ELSE lastAction.payload.id

(***************************************************************************)
(* C29: after addItem(P, k) or updateQty(id, q) the line items with any    *)
(* other id are the ones before, field by field and in the same order; a   *)
(* line item that was not in the cart is appended at the end; a line item  *)
(* that was in the cart and still is has its position, title, price and    *)
(* image.                                                                  *)
(***************************************************************************)
C29_Frame ==
  (LastWas("ADD") \/ LastWas("UPDATE_QTY")) =>
    /\ OtherLines(items, TargetId) = OtherLines(prevItems, TargetId)
    /\ (LastWas("ADD") /\ ~InCart(prevItems, TargetId)) =>
         /\ Len(items) = Len(prevItems) + 1
         /\ SubSeq(items, 1, Len(prevItems)) = prevItems
         /\ items[Len(items)].id = TargetId
    /\ \A n \in 1..Len(prevItems) :
         (prevItems[n].id = TargetId /\ InCart(items, TargetId)) =>
           /\ n <= Len(items)
           /\ items[n].id = TargetId
           /\ items[n].title = prevItems[n].title
           /\ items[n].price = prevItems[n].price
           /\ items[n].image = prevItems[n].image

\* the catalog's edited product 1 was added again while its line, stored with
\* the earlier title and price, was the first of two; it is still the first
C29_Witness ==
  /\ LastWas("ADD")
  /\ lastAction.payload.product.title = "A2"
  /\ Len(prevItems) = 2
  /\ prevItems[1].id = 1
  /\ prevItems[1].title = "A"
  /\ items[1].title = "A"
  /\ items[1].qty = prevItems[1].qty + lastAction.payload.qty
  /\ items[2] = prevItems[2]

====
